---- MODULE Spec2Model ----
(***************************************************************************)
(* Mermaid Chart Studio: the MermaidEditor component of src/app/page.tsx   *)
(* as a state machine.  Strings are sequences of one-character strings.    *)
(* One action per event handler or effect-driven step; every action also   *)
(* performs the React commit that follows the handler's state updates      *)
(* (the conditional preview at lines 611-624 and the effects whose         *)
(* dependencies changed).                                                  *)
(***************************************************************************)
EXTENDS Integers, Sequences, FiniteSets, TLC

VARIABLES
    mounted,        \* useState(false), line 90
    code,           \* useState(templates.flowchart), line 84
    mermaidTheme,   \* useState('default'), line 85
    isDark,         \* currentTheme === 'dark', lines 102-103
    mermaidConfig,  \* the theme last passed to mermaid.initialize, line 124
    error,          \* useState(''), line 87
    diagramRef,     \* diagramRef.current, line 96: "null" or "div"
    innerHTML,      \* what line 170 wrote into the preview div
    idCounter,      \* useRef(0), line 100
    timers,         \* pending setTimeout callbacks of the debounce effect
    inflight,       \* mermaid.render promises not yet settled
    lastCall,       \* history: the most recent renderer invocation
    completed,      \* history: some renderer invocation has settled
    savedDiagrams,  \* useState([]), line 89 (a JavaScript value)
    storage,        \* localStorage['mermaid-diagrams']
    showSidebar,    \* useState(true), line 91
    crashed,        \* history: a render of the component has thrown
    saved,          \* history: the pairs saved and not deleted, in order
    mutated,        \* history: the list was changed since the page was loaded
    issued,         \* history: the identifiers handed to the renderer, in order
    zoom,           \* useState(100), line 86
    isFullscreen,   \* useState(false), line 88
    hostFullscreen, \* the host: document.fullscreenElement is not null
    fsRequests,     \* the host: fullscreen requests not yet settled
    fsEvents,       \* the host: fullscreenchange notifications not yet delivered
    hostLog,        \* history: what the host last did about fullscreen
    editorWidth,    \* useState(50), line 92
    isResizing,     \* useState(false), line 93
    dragging,       \* history: the handle was pressed and the pointer not released since
    exports,        \* toPng / toSvg promises not yet settled
    copies,         \* clipboard.writeText promises not yet settled
    notices,        \* the alerts shown to the user, in order
    downloads,      \* the files handed to the browser for download, in order
    clipboard       \* the host: the text on the clipboard

pipelineVars == <<code, mermaidTheme, isDark, mermaidConfig, error, diagramRef,
                  innerHTML, idCounter, timers, inflight, lastCall, completed,
                  issued>>
storeVars == <<savedDiagrams, storage, saved>>
fullscreenVars == <<isFullscreen, hostFullscreen, fsRequests, fsEvents, hostLog>>
splitVars == <<editorWidth, isResizing, dragging>>
viewVars == <<zoom, fullscreenVars, splitVars>>
ioVars == <<exports, copies, notices, downloads, clipboard>>
sessionVars == <<mounted, pipelineVars, storeVars, showSidebar, crashed, mutated>>
vars == <<sessionVars, viewVars, ioVars>>

(***************************************************************************)
(* Bounds of the model.                                                    *)
(***************************************************************************)
MaxRenders == 2     \* renderer invocations explored per page load
MaxSaved == 2       \* entries of the saved list explored
MaxRequests == 2    \* fullscreen requests and notifications pending at a
                    \* time; exports and copies explored per page load

(***************************************************************************)
(* Source text.                                                            *)
(***************************************************************************)
\* String.prototype.trim() removes leading and trailing white space.
WhiteSpace == {" ", "\n"}

RECURSIVE TrimStart(_)
TrimStart(s) ==
    IF s # <<>> /\ Head(s) \in WhiteSpace THEN TrimStart(Tail(s)) ELSE s

RECURSIVE TrimEnd(_)
TrimEnd(s) ==
    IF s # <<>> /\ s[Len(s)] \in WhiteSpace
    THEN TrimEnd(SubSeq(s, 1, Len(s) - 1))
    ELSE s

trim(s) == TrimEnd(TrimStart(s))

\* The templates table, lines 27-79: six constant, non-blank diagram texts.
\* Each template body is represented by one letter.
templates ==
    [flowchart |-> <<"F">>, sequence |-> <<"S">>, class |-> <<"C">>,
     gantt |-> <<"G">>, erDiagram |-> <<"E">>, pie |-> <<"P">>]

TemplateNames == DOMAIN templates

\* The texts typed into the textarea: empty, white space only, a diagram
\* surrounded by white space ("g" stands for a well-formed statement), and
\* an incomplete diagram ("!" stands for a dangling token).
TypedTexts ==
    { <<>>, <<" ", "\n">>, <<"\n", "g", " ">>, <<"g", "!">> }

MermaidTheme == {"default", "dark", "forest", "neutral", "base"}

(***************************************************************************)
(* The external renderer, mermaid.render(id, text).                        *)
(***************************************************************************)
\* The renderer is a function of the text: it accepts a text exactly when
\* the text holds statements and no dangling token.
Accepts(text) ==
    /\ trim(text) # <<>>
    /\ \A i \in 1..Len(text) : text[i] # "!"

\* What a rejected promise carries: an Error with a message, an Error with
\* an empty message, or a value without a message property.
NoMessage == [hasMessage |-> FALSE]
Rejections ==
    { [hasMessage |-> TRUE, message |-> "Parse error"],
      [hasMessage |-> TRUE, message |-> ""],
      NoMessage }

\* err?.message || 'Invalid Mermaid syntax', line 178
FailureMessageNoDefault(err) == IF err.hasMessage THEN err.message ELSE ""

FailureMessage(err) ==
    IF err.hasMessage /\ err.message # ""
    THEN err.message
    ELSE "Invalid Mermaid syntax"

\* The TypeError thrown by diagramRef.current.innerHTML = svg when
\* diagramRef.current is null, caught by the same catch block.
NullRefError == [hasMessage |-> TRUE, message |-> "Cannot set properties of null"]

(***************************************************************************)
(* The preview, lines 611-624.                                             *)
(*                                                                         *)
(* Both branches of the conditional `error ? <div>..</div> : <div ref=..>` *)
(* are a div at the same position, so React keeps one DOM node for both    *)
(* and only moves the ref: while error is non-empty the rendered element   *)
(* carries no ref and diagramRef.current is null; while error is empty     *)
(* diagramRef.current is that node.  What renderDiagram wrote into the     *)
(* node with innerHTML is not a React child: React neither knows nor       *)
(* removes it when it adds the icon and the message of the error branch.   *)
(***************************************************************************)
NoSvg == [svg |-> FALSE]
Svg(call) ==
    [svg |-> TRUE, id |-> call.id, code |-> call.code, theme |-> call.theme]

\* diagramRef.current after the commit that renders `err` as the error.
CommitPreview(err) == IF err # "" THEN "null" ELSE "div"

ShowsError == error # ""
ShowsArtifact == innerHTML.svg
DisplayEmpty == ~ShowsError /\ ~ShowsArtifact

NoCall == [id |-> -1]

(***************************************************************************)
(* JavaScript values, JSON.stringify and JSON.parse.                       *)
(***************************************************************************)
JNull == [t |-> "null"]
JUndefined == [t |-> "undefined"]
JBool(b) == [t |-> "bool", v |-> b]
JNum(n) == [t |-> "num", v |-> n]
JStr(s) == [t |-> "str", v |-> s]
JArr(elems) == [t |-> "arr", v |-> elems]
\* An object is the sequence of its <<key, value>> properties in insertion order.
JObj(props) == [t |-> "obj", v |-> props]

KeyName == <<"n", "a", "m", "e">>
KeyCode == <<"c", "o", "d", "e">>
KeyLength == <<"l", "e", "n", "g", "t", "h">>

\* The object literal { name, code } of line 340.
Diagram(name, text) ==
    JObj(<< <<KeyName, JStr(name)>>, <<KeyCode, JStr(text)>> >>)

\* obj[key] for an own property, undefined when there is none.
RECURSIVE GetProp(_, _)
GetProp(props, key) ==
    IF props = <<>> THEN JUndefined
    ELSE IF props[Len(props)][1] = key THEN props[Len(props)][2]
    ELSE GetProp(SubSeq(props, 1, Len(props) - 1), key)

\* Defining a property: a repeated key keeps its place and takes the new value.
SetProp(props, key, val) ==
    IF \E i \in 1..Len(props) : props[i][1] = key
    THEN [i \in 1..Len(props) |->
            IF props[i][1] = key THEN <<key, val>> ELSE props[i]]
    ELSE Append(props, <<key, val>>)

Digits == <<"0", "1", "2", "3", "4", "5", "6", "7", "8", "9">>
IsDigit(c) == \E i \in 1..Len(Digits) : Digits[i] = c
DigitVal(c) == (CHOOSE i \in 1..Len(Digits) : Digits[i] = c) - 1

RECURSIVE Decimal(_)
Decimal(n) ==
    IF n < Len(Digits) THEN <<Digits[n + 1]>>
    ELSE Decimal(n \div Len(Digits)) \o <<Digits[(n % Len(Digits)) + 1]>>

\* JSON.stringify's QuoteJSONString: the quote, the backslash and the
\* line feed are written as two-character escapes.
EscapeCharRaw(c) == <<c>>

EscapeChar(c) ==
    IF c = "\"" THEN <<"\\", "\"">>
    ELSE IF c = "\\" THEN <<"\\", "\\">>
    ELSE IF c = "\n" THEN <<"\\", "n">>
    ELSE <<c>>

RECURSIVE EscapeAll(_)
EscapeAll(s) ==
    IF s = <<>> THEN <<>> ELSE EscapeChar(Head(s)) \o EscapeAll(Tail(s))

Quote(s) == <<"\"">> \o EscapeAll(s) \o <<"\"">>

RECURSIVE JSONstringify(_), StringifyElems(_), StringifyProps(_)
JSONstringify(val) ==
    CASE val.t = "null" -> <<"n", "u", "l", "l">>
      [] val.t = "bool" ->
            IF val.v THEN <<"t", "r", "u", "e">> ELSE <<"f", "a", "l", "s", "e">>
      [] val.t = "num" -> Decimal(val.v)
      [] val.t = "str" -> Quote(val.v)
      [] val.t = "arr" -> <<"[">> \o StringifyElems(val.v) \o <<"]">>
      [] val.t = "obj" -> <<"{">> \o StringifyProps(val.v) \o <<"}">>

StringifyElems(elems) ==
    IF elems = <<>> THEN <<>>
    ELSE JSONstringify(Head(elems))
         \o (IF Len(elems) > 1 THEN <<",">> ELSE <<>>)
         \o StringifyElems(Tail(elems))

StringifyProps(props) ==
    IF props = <<>> THEN <<>>
    ELSE Quote(Head(props)[1]) \o <<":">> \o JSONstringify(Head(props)[2])
         \o (IF Len(props) > 1 THEN <<",">> ELSE <<>>)
         \o StringifyProps(Tail(props))

\* JSON.parse: a recursive-descent parser of the JSON grammar (numbers are
\* the non-negative integers).  Each parser returns [ok, val, rest].
SyntaxError == [ok |-> FALSE]
Parsed(val, rest) == [ok |-> TRUE, val |-> val, rest |-> rest]

RECURSIVE SkipWs(_)
SkipWs(s) ==
    IF s # <<>> /\ Head(s) \in WhiteSpace THEN SkipWs(Tail(s)) ELSE s

StartsWith(s, prefix) ==
    Len(s) >= Len(prefix) /\ SubSeq(s, 1, Len(prefix)) = prefix

Drop(s, n) == SubSeq(s, n + 1, Len(s))

\* The body of a string, after its opening quote; acc is what was read.
RECURSIVE ParseStringBody(_, _)
ParseStringBody(s, acc) ==
    IF s = <<>> THEN SyntaxError
    ELSE IF Head(s) = "\"" THEN Parsed(JStr(acc), Tail(s))
    ELSE IF Head(s) = "\n" THEN SyntaxError
    ELSE IF Head(s) = "\\" THEN
        IF Len(s) < 2 THEN SyntaxError
        ELSE IF s[2] = "\"" THEN ParseStringBody(Drop(s, 2), Append(acc, "\""))
        ELSE IF s[2] = "\\" THEN ParseStringBody(Drop(s, 2), Append(acc, "\\"))
        ELSE IF s[2] = "n" THEN ParseStringBody(Drop(s, 2), Append(acc, "\n"))
        ELSE SyntaxError
    ELSE ParseStringBody(Tail(s), Append(acc, Head(s)))

RECURSIVE ParseDigits(_, _)
ParseDigits(s, acc) ==
    IF s # <<>> /\ IsDigit(Head(s))
    THEN ParseDigits(Tail(s), acc * Len(Digits) + DigitVal(Head(s)))
    ELSE Parsed(JNum(acc), s)

RECURSIVE ParseValue(_), ParseElems(_, _), ParseProps(_, _)
ParseValue(s0) ==
    LET s == SkipWs(s0) IN
    IF s = <<>> THEN SyntaxError
    ELSE IF StartsWith(s, <<"n", "u", "l", "l">>) THEN Parsed(JNull, Drop(s, 4))
    ELSE IF StartsWith(s, <<"t", "r", "u", "e">>) THEN Parsed(JBool(TRUE), Drop(s, 4))
    ELSE IF StartsWith(s, <<"f", "a", "l", "s", "e">>)
         THEN Parsed(JBool(FALSE), Drop(s, 5))
    ELSE IF Head(s) = "0" THEN Parsed(JNum(0), Tail(s))
    ELSE IF IsDigit(Head(s)) THEN ParseDigits(s, 0)
    ELSE IF Head(s) = "\"" THEN ParseStringBody(Tail(s), <<>>)
    ELSE IF Head(s) = "[" THEN
        LET r == SkipWs(Tail(s)) IN
        IF r # <<>> /\ Head(r) = "]" THEN Parsed(JArr(<<>>), Tail(r))
        ELSE ParseElems(r, <<>>)
    ELSE IF Head(s) = "{" THEN
        LET r == SkipWs(Tail(s)) IN
        IF r # <<>> /\ Head(r) = "}" THEN Parsed(JObj(<<>>), Tail(r))
        ELSE ParseProps(r, <<>>)
    ELSE SyntaxError

\* The elements of an array, after "[" or ","; acc holds those read.
ParseElems(s, acc) ==
    LET e == ParseValue(s) IN
    IF ~e.ok THEN SyntaxError
    ELSE LET r == SkipWs(e.rest) IN
         IF r = <<>> THEN SyntaxError
         ELSE IF Head(r) = "]" THEN Parsed(JArr(Append(acc, e.val)), Tail(r))
         ELSE IF Head(r) = "," THEN ParseElems(Tail(r), Append(acc, e.val))
         ELSE SyntaxError

\* The members of an object, after "{" or ","; acc holds those read.
ParseProps(s0, acc) ==
    LET s == SkipWs(s0) IN
    IF s = <<>> \/ Head(s) # "\"" THEN SyntaxError
    ELSE LET k == ParseStringBody(Tail(s), <<>>) IN
         IF ~k.ok THEN SyntaxError
         ELSE LET c == SkipWs(k.rest) IN
              IF c = <<>> \/ Head(c) # ":" THEN SyntaxError
              ELSE LET e == ParseValue(Tail(c)) IN
                   IF ~e.ok THEN SyntaxError
                   ELSE LET r == SkipWs(e.rest)
                            props == SetProp(acc, k.val.v, e.val)
                        IN IF r = <<>> THEN SyntaxError
                           ELSE IF Head(r) = "}" THEN Parsed(JObj(props), Tail(r))
                           ELSE IF Head(r) = "," THEN ParseProps(Tail(r), props)
                           ELSE SyntaxError

\* JSON.parse(text): the value, or a thrown SyntaxError.
JSONparse(text) ==
    LET r == ParseValue(text) IN
    IF r.ok /\ SkipWs(r.rest) = <<>> THEN [ok |-> TRUE, val |-> r.val]
    ELSE SyntaxError

(***************************************************************************)
(* The saved list as the component uses it.                                *)
(***************************************************************************)
NoItem == [present |-> FALSE]
Item(text) == [present |-> TRUE, text |-> text]

\* localStorage.setItem('mermaid-diagrams', JSON.stringify(newDiagrams))
setItemStale(newDiagrams) == Item(JSONstringify(savedDiagrams))

setItem(newDiagrams) == Item(JSONstringify(newDiagrams))

\* [...savedDiagrams]: arrays and strings are iterable, nothing else that
\* JSON.parse returns is.
Iterable(val) == val.t \in {"arr", "str"}
Spread(val) ==
    IF val.t = "arr" THEN val.v
    ELSE [i \in 1..Len(val.v) |-> JStr(<<val.v[i]>>)]

\* savedDiagrams.filter((_, i) => i !== index), index counted from 0
FilterLast(elems, index, i) == SubSeq(elems, 1, Len(elems) - 1)

RECURSIVE FilterIndex(_, _, _)
FilterIndex(elems, index, i) ==
    IF elems = <<>> THEN <<>>
    ELSE (IF i # index THEN <<Head(elems)>> ELSE <<>>)
         \o FilterIndex(Tail(elems), index, i + 1)

\* val.key for a value that is neither null nor undefined.
PropOf(val, key) == IF val.t = "obj" THEN GetProp(val.v, key) ELSE JUndefined

\* val.length
LengthOf(val) ==
    IF val.t \in {"arr", "str"} THEN JNum(Len(val.v))
    ELSE PropOf(val, KeyLength)

\* x > 0 for a number, a boolean, null or undefined.
GtZero(x) == (x.t = "num" /\ x.v > 0) \/ (x.t = "bool" /\ x.v)

\* React renders strings and numbers, skips null, undefined and booleans,
\* renders the elements of an array, and throws on a plain object.
RECURSIVE ValidChild(_)
ValidChild(val) ==
    IF val.t = "obj" THEN FALSE
    ELSE IF val.t = "arr" THEN \A i \in 1..Len(val.v) : ValidChild(val.v[i])
    ELSE TRUE

\* Rendering the sidebar's saved list, lines 520-547, throws.
SidebarThrows(val) ==
    IF val.t \in {"null", "undefined"} THEN TRUE
    ELSE IF ~GtZero(LengthOf(val)) THEN FALSE
    ELSE IF val.t # "arr" THEN TRUE
    ELSE \E i \in 1..Len(val.v) :
            \/ val.v[i].t = "null"
            \/ ~ValidChild(PropOf(val.v[i], KeyName))

\* The array of { name, code } objects for a sequence of pairs.
DiagramList(pairs) ==
    JArr([i \in 1..Len(pairs) |-> Diagram(pairs[i].name, pairs[i].code)])

(***************************************************************************)
(* Inputs.                                                                 *)
(***************************************************************************)
\* prompt('Enter diagram name:') returns null when cancelled.
PromptCancelled == [cancelled |-> TRUE]
PromptAnswers ==
    { PromptCancelled,
      [cancelled |-> FALSE, text |-> <<>>],
      [cancelled |-> FALSE, text |-> <<"A">>],
      [cancelled |-> FALSE, text |-> <<"\\", "\"">>] }

\* Contents of the store slot that a session of this program can have left:
\* nothing, or the serialization of a list of pairs.
SavedStores ==
    { [item |-> NoItem, list |-> <<>>],
      [item |-> Item(<<"[", "]">>), list |-> <<>>],
      [item |-> Item(<<"[", "{", "\"", "n", "a", "m", "e", "\"", ":",
                       "\"", "A", "\\", "\"", "\"", ",",
                       "\"", "c", "o", "d", "e", "\"", ":",
                       "\"", "\\", "n", "g", " ", "\"", "}", "]">>),
       list |-> << [name |-> <<"A", "\"">>, code |-> <<"\n", "g", " ">>] >>] }

\* Contents that are no serialized list of pairs: the empty string, text
\* that is not JSON, JSON that is not a list, and lists of other things.
ForeignItems ==
    { Item(<<>>),
      Item(<<"[", "{">>),
      Item(<<"o", "o", "p", "s">>),
      Item(<<"n", "u", "l", "l">>),
      Item(<<"5">>),
      Item(<<"\"", "\"">>),
      Item(<<"\"", "a", "b", "\"">>),
      Item(<<"{", "}">>),
      Item(<<"[", "1", "]">>),
      Item(<<"[", "n", "u", "l", "l", "]">>),
      Item(<<"[", "{", "\"", "n", "a", "m", "e", "\"", ":", "{", "}", "}", "]">>) }

ForeignStores == { [item |-> it, list |-> <<>>] : it \in ForeignItems }

(***************************************************************************)
(* Initial state: the component as constructed, before its effects run.    *)
(***************************************************************************)
Constructed ==
    /\ mounted = FALSE
    /\ code = templates.flowchart
    /\ mermaidTheme = "default"
    /\ mermaidConfig = "default"
    /\ error = ""
    /\ diagramRef = "null"
    /\ innerHTML = NoSvg
    /\ idCounter = 0
    /\ timers = {}
    /\ inflight = {}
    /\ lastCall = NoCall
    /\ completed = FALSE
    /\ savedDiagrams = JArr(<<>>)
    /\ showSidebar = TRUE
    /\ crashed = FALSE
    /\ mutated = FALSE
    /\ issued = <<>>
    /\ zoom = 100
    /\ isFullscreen = FALSE
    /\ hostFullscreen = FALSE
    /\ fsRequests = <<>>
    /\ fsEvents = 0
    /\ hostLog = "idle"
    /\ editorWidth = 50
    /\ isResizing = FALSE
    /\ dragging = FALSE
    /\ exports = <<>>
    /\ copies = <<>>
    /\ notices = <<>>
    /\ downloads = <<>>

InitWith(stores) ==
    /\ Constructed
    /\ isDark \in BOOLEAN
    /\ clipboard = <<>>
    /\ \E st \in stores : storage = st.item /\ saved = st.list

Init == InitWith(SavedStores \cup ForeignStores)

Usable == mounted /\ ~crashed

(***************************************************************************)
(* Effects.                                                                *)
(***************************************************************************)
\* The debounce effect, lines 183-188: its cleanup clears the timer of the
\* previous run, then a new timer is set whose callback closes over the
\* renderDiagram of this render, that is over `text`.
DebounceEffect(pending, text) == {[code |-> text]}

\* The theme effect, lines 109-117, for the UI theme `dark`.
SyncedTheme(dark, theme) ==
    IF dark /\ theme = "default" THEN "dark"
    ELSE IF ~dark /\ theme = "dark" THEN "default"
    ELSE theme

\* The load effect, lines 190-200: the new value of savedDiagrams.
Loaded(item) ==
    IF ~item.present \/ item.text = <<>> THEN savedDiagrams
    ELSE LET r == JSONparse(item.text) IN
         IF r.ok THEN r.val ELSE savedDiagrams

\* The effects of the first commit, lines 105-107, and of the commit that
\* setMounted(true) causes: theme sync, mermaid.initialize, the debounce
\* timer, the load of the saved list, and the first render of the page.
Mount ==
    /\ ~mounted /\ ~crashed
    /\ mounted' = TRUE
    /\ mermaidTheme' = SyncedTheme(isDark, mermaidTheme)
    /\ mermaidConfig' = mermaidTheme'
    /\ savedDiagrams' = Loaded(storage)
    /\ crashed' = SidebarThrows(savedDiagrams')
    /\ diagramRef' = IF crashed' THEN "null" ELSE CommitPreview(error)
    /\ timers' = IF crashed' THEN {} ELSE DebounceEffect(timers, code)
    /\ UNCHANGED <<code, isDark, error, innerHTML, idCounter, inflight, lastCall,
                   completed, issued, storage, saved, showSidebar, mutated>>
    /\ UNCHANGED <<viewVars, ioVars>>

(***************************************************************************)
(* The render pipeline.                                                    *)
(***************************************************************************)
\* setCode(text) from the textarea, line 569
setCode(text) ==
    /\ Usable
    /\ text # code
    /\ code' = text
    /\ timers' = DebounceEffect(timers, text)
    /\ UNCHANGED <<mounted, mermaidTheme, isDark, mermaidConfig, error, diagramRef,
                   innerHTML, idCounter, inflight, lastCall, completed, issued,
                   storeVars, showSidebar, crashed, mutated>>
    /\ UNCHANGED <<viewVars, ioVars>>

\* A template button of the sidebar, line 512
selectTemplate(name) == showSidebar /\ setCode(templates[name])

\* The theme selector, line 431; the effects at 119-161 and 183-188 follow.
setMermaidTheme(theme) ==
    /\ Usable
    /\ theme # mermaidTheme
    /\ mermaidTheme' = theme
    /\ mermaidConfig' = theme
    /\ timers' = DebounceEffect(timers, code)
    /\ UNCHANGED <<mounted, code, isDark, error, diagramRef, innerHTML, idCounter,
                   inflight, lastCall, completed, issued, storeVars, showSidebar,
                   crashed, mutated>>
    /\ UNCHANGED <<viewVars, ioVars>>

\* The light/dark buttons, lines 391-424; the effect at 109-117 follows.
setTheme(dark) ==
    /\ Usable
    /\ dark # isDark
    /\ isDark' = dark
    /\ mermaidTheme' = SyncedTheme(dark, mermaidTheme)
    /\ mermaidConfig' = mermaidTheme'
    /\ timers' = IF mermaidTheme' # mermaidTheme
                 THEN DebounceEffect(timers, code)
                 ELSE timers
    /\ UNCHANGED <<mounted, code, error, diagramRef, innerHTML, idCounter,
                   inflight, lastCall, completed, issued, storeVars, showSidebar,
                   crashed, mutated>>
    /\ UNCHANGED <<viewVars, ioVars>>

\* idCounter.current++, line 168: the value of the counter afterwards.
PostIncrementStuck(n) == n

PostIncrement(n) == n + 1

\* The guard of renderDiagram, line 164.
GuardReturnsNoTrim(text) ==
    diagramRef = "null" \/ text = <<>> \/ ~mounted

GuardReturns(text) ==
    diagramRef = "null" \/ trim(text) = <<>> \/ ~mounted

\* renderDiagram up to its await, lines 163-169, closed over `text`.
renderDiagram(text) ==
    IF GuardReturns(text)
    THEN UNCHANGED <<error, diagramRef, idCounter, inflight, lastCall, issued>>
    ELSE LET call == [id |-> idCounter, code |-> text, theme |-> mermaidConfig]
         IN /\ Len(issued) < MaxRenders
            /\ error' = ""
            /\ diagramRef' = CommitPreview(error')
            /\ idCounter' = PostIncrement(idCounter)
            /\ inflight' = inflight \cup {call}
            /\ lastCall' = call
            /\ issued' = Append(issued, call.id)

\* The timer callback, lines 184-186.
TimerFires(tm) ==
    /\ Usable
    /\ tm \in timers
    /\ timers' = timers \ {tm}
    /\ renderDiagram(tm.code)
    /\ UNCHANGED <<mounted, code, mermaidTheme, isDark, mermaidConfig, innerHTML,
                   completed, storeVars, showSidebar, crashed, mutated>>
    /\ UNCHANGED <<viewVars, ioVars>>

\* The catch block, lines 177-180.
Catch(err) ==
    /\ error' = FailureMessage(err)
    /\ diagramRef' = CommitPreview(error')
    /\ UNCHANGED innerHTML

\* renderDiagram after its await, lines 169-180: the promise of `call`
\* resolves with an svg when the renderer accepts the text and rejects
\* otherwise.
renderResumes(call) ==
    /\ Usable
    /\ call \in inflight
    /\ inflight' = inflight \ {call}
    /\ completed' = TRUE
    /\ IF Accepts(call.code)
       THEN IF diagramRef = "null"
            THEN Catch(NullRefError)
            ELSE /\ innerHTML' = Svg(call)
                 /\ UNCHANGED <<error, diagramRef>>
       ELSE \E err \in Rejections : Catch(err)
    /\ UNCHANGED <<mounted, code, mermaidTheme, isDark, mermaidConfig, idCounter,
                   timers, lastCall, issued, storeVars, showSidebar, crashed, mutated>>
    /\ UNCHANGED <<viewVars, ioVars>>

(***************************************************************************)
(* The saved list.                                                         *)
(***************************************************************************)
\* saveDiagram, lines 336-343, with the prompt's answer.
saveDiagram(answer) ==
    /\ Usable
    /\ IF answer.cancelled \/ answer.text = <<>> \/ ~Iterable(savedDiagrams)
       THEN UNCHANGED <<storeVars, mutated>>
       ELSE LET newDiagrams ==
                    JArr(Spread(savedDiagrams) \o <<Diagram(answer.text, code)>>)
            IN /\ Len(Spread(savedDiagrams)) < MaxSaved
               /\ savedDiagrams' = newDiagrams
               /\ storage' = setItem(newDiagrams)
               /\ saved' = Append(saved, [name |-> answer.text, code |-> code])
               /\ mutated' = TRUE
    /\ UNCHANGED <<mounted, pipelineVars, showSidebar, crashed>>
    /\ UNCHANGED <<viewVars, ioVars>>

\* The delete buttons exist for the entries of a rendered list.
Listed(i) ==
    /\ showSidebar
    /\ savedDiagrams.t = "arr"
    /\ i \in 1..Len(savedDiagrams.v)

\* deleteDiagram(index), lines 345-350, with the confirm's answer; the
\* entry at position i of the list has index i - 1.
deleteDiagramUnconfirmed(i, confirmed) ==
    /\ Usable
    /\ Listed(i)
    /\ LET newDiagrams == JArr(FilterIndex(savedDiagrams.v, i - 1, 0))
       IN /\ savedDiagrams' = newDiagrams
          /\ storage' = setItem(newDiagrams)
          /\ saved' = [j \in 1..(Len(saved) - 1) |->
                          IF j < i THEN saved[j] ELSE saved[j + 1]]
          /\ mutated' = TRUE
    /\ UNCHANGED <<mounted, pipelineVars, showSidebar, crashed>>
    /\ UNCHANGED <<viewVars, ioVars>>

deleteDiagram(i, confirmed) ==
    /\ Usable
    /\ Listed(i)
    /\ IF ~confirmed
       THEN UNCHANGED <<storeVars, mutated>>
       ELSE LET newDiagrams == JArr(FilterIndex(savedDiagrams.v, i - 1, 0))
            IN /\ savedDiagrams' = newDiagrams
               /\ storage' = setItem(newDiagrams)
               /\ saved' = [j \in 1..(Len(saved) - 1) |->
                               IF j < i THEN saved[j] ELSE saved[j + 1]]
               /\ mutated' = TRUE
    /\ UNCHANGED <<mounted, pipelineVars, showSidebar, crashed>>
    /\ UNCHANGED <<viewVars, ioVars>>

\* loadDiagram(diagram.code), lines 352-354 and 533.  A code that is no
\* string makes the next render throw at code.split, line 575.
loadDiagramTakes(i) ==
    /\ Usable
    /\ Listed(i)
    /\ LET c == PropOf(savedDiagrams.v[i], KeyCode)
           newDiagrams == JArr(FilterIndex(savedDiagrams.v, i - 1, 0))
       IN /\ c.t = "str"
          /\ code' = c.v
          /\ timers' = DebounceEffect(timers, c.v)
          /\ savedDiagrams' = newDiagrams
          /\ storage' = setItem(newDiagrams)
          /\ saved' = [j \in 1..(Len(saved) - 1) |->
                          IF j < i THEN saved[j] ELSE saved[j + 1]]
    /\ UNCHANGED <<mounted, mermaidTheme, isDark, mermaidConfig, error, diagramRef,
                   innerHTML, idCounter, inflight, lastCall, completed, issued,
                   showSidebar, crashed, mutated>>
    /\ UNCHANGED <<viewVars, ioVars>>

loadDiagram(i) ==
    /\ Usable
    /\ Listed(i)
    /\ LET c == PropOf(savedDiagrams.v[i], KeyCode) IN
       IF c.t = "str"
       THEN /\ c.v # code
            /\ code' = c.v
            /\ timers' = DebounceEffect(timers, c.v)
            /\ UNCHANGED crashed
       ELSE /\ crashed' = TRUE
            /\ timers' = {}
            /\ UNCHANGED code
    /\ UNCHANGED <<mounted, mermaidTheme, isDark, mermaidConfig, error, diagramRef,
                   innerHTML, idCounter, inflight, lastCall, completed, issued,
                   storeVars, showSidebar, mutated>>
    /\ UNCHANGED <<viewVars, ioVars>>

\* The sidebar toggle, line 378
toggleSidebar ==
    /\ Usable
    /\ showSidebar' = ~showSidebar
    /\ UNCHANGED <<mounted, pipelineVars, storeVars, crashed, mutated>>
    /\ UNCHANGED <<viewVars, ioVars>>

(***************************************************************************)
(* Commits of the viewport and splitter handlers.                          *)
(***************************************************************************)
\* The pipeline's variables other than the pending timers.
renderVars == <<code, mermaidTheme, isDark, mermaidConfig, error, diagramRef,
                innerHTML, idCounter, inflight, lastCall, completed, issued>>

\* The dependency array of the debounce effect, line 188: after a commit
\* the effect runs when code, mermaidTheme or renderDiagram changed, and
\* renderDiagram changes with code and mounted (line 181).
EffectRunsAlways == TRUE

EffectRuns ==
    code' # code \/ mermaidTheme' # mermaidTheme \/ mounted' # mounted

\* The pending timers after the commit of a step.
TimersAfterCommit ==
    IF EffectRuns THEN DebounceEffect(timers, code') ELSE timers

\* What a handler that only sets viewport or splitter state leaves alone.
ViewCommit ==
    /\ UNCHANGED <<mounted, renderVars, storeVars, showSidebar, crashed, mutated>>
    /\ timers' = TimersAfterCommit
    /\ UNCHANGED ioVars

(***************************************************************************)
(* Zoom, lines 356-357.                                                    *)
(***************************************************************************)
MathMin(a, b) == IF a < b THEN a ELSE b
MathMax(a, b) == IF a > b THEN a ELSE b

\* The updaters passed to setZoom.
ZoomedInUnclamped(prev) == prev + 10

ZoomedIn(prev) == MathMin(prev + 10, 200)

ZoomedOut(prev) == MathMax(prev - 10, 50)

handleZoomIn ==
    /\ Usable
    /\ zoom' = ZoomedIn(zoom)
    /\ UNCHANGED <<fullscreenVars, splitVars>>
    /\ ViewCommit

handleZoomOut ==
    /\ Usable
    /\ zoom' = ZoomedOut(zoom)
    /\ UNCHANGED <<fullscreenVars, splitVars>>
    /\ ViewCommit

(***************************************************************************)
(* Fullscreen, lines 203-258, and the host's side of it.                   *)
(***************************************************************************)
\* Removing the element at position i of a sequence.
RemoveAt(seq, i) == SubSeq(seq, 1, i - 1) \o SubSeq(seq, i + 1, Len(seq))

\* toggleFullscreen up to its await, lines 203-229: the request made
\* depends on the flag; the flag itself is not written.
toggleFullscreenOptimistic ==
    /\ Usable
    /\ Len(fsRequests) + fsEvents < MaxRequests
    /\ fsRequests' = Append(fsRequests, IF ~isFullscreen THEN "enter" ELSE "exit")
    /\ isFullscreen' = ~isFullscreen
    /\ UNCHANGED <<hostFullscreen, fsEvents, hostLog>>
    /\ UNCHANGED <<sessionVars, zoom, splitVars, ioVars>>

toggleFullscreen ==
    /\ Usable
    /\ Len(fsRequests) + fsEvents < MaxRequests
    /\ fsRequests' = Append(fsRequests, IF ~isFullscreen THEN "enter" ELSE "exit")
    /\ UNCHANGED <<isFullscreen, hostFullscreen, fsEvents, hostLog>>
    /\ UNCHANGED <<sessionVars, zoom, splitVars, ioVars>>

\* A request has nothing to do for the host: requestFullscreen while the
\* preview is the fullscreen element, exitFullscreen while nothing is.
Redundant(request) ==
    \/ request = "enter" /\ hostFullscreen
    \/ request = "exit" /\ ~hostFullscreen

\* The host settles the request at position i, lines 210 and 221.  An
\* enter request is granted or denied; it resolves without effect when the
\* preview is already fullscreen.  An exit request is carried out; it is
\* rejected when nothing is fullscreen.  A rejection lands in the catch
\* block, lines 230-232, which logs it to the console.
HostSettles(i, granted) ==
    /\ Usable
    /\ i \in 1..Len(fsRequests)
    /\ fsRequests' = RemoveAt(fsRequests, i)
    /\ LET request == fsRequests[i] IN
       IF request = "enter"
       THEN IF hostFullscreen
            THEN /\ hostLog' = "resolved without effect"
                 /\ UNCHANGED <<hostFullscreen, fsEvents>>
            ELSE IF granted
            THEN /\ hostFullscreen' = TRUE
                 /\ fsEvents' = fsEvents + 1
                 /\ hostLog' = "entered"
            ELSE /\ hostLog' = "rejected"
                 /\ UNCHANGED <<hostFullscreen, fsEvents>>
       ELSE IF hostFullscreen
            THEN /\ hostFullscreen' = FALSE
                 /\ fsEvents' = fsEvents + 1
                 /\ hostLog' = "exited"
            ELSE /\ hostLog' = "rejected"
                 /\ UNCHANGED <<hostFullscreen, fsEvents>>
    /\ UNCHANGED <<isFullscreen, sessionVars, zoom, splitVars, ioVars>>

\* Fullscreen is left by a control of the host (the Esc key).
EscapePressed ==
    /\ Usable
    /\ hostFullscreen
    /\ Len(fsRequests) + fsEvents < MaxRequests
    /\ hostFullscreen' = FALSE
    /\ fsEvents' = fsEvents + 1
    /\ hostLog' = "escaped"
    /\ UNCHANGED <<isFullscreen, fsRequests>>
    /\ UNCHANGED <<sessionVars, zoom, splitVars, ioVars>>

\* !!(document.fullscreenElement || ...), lines 238-243
isCurrentlyFullscreenToggled == ~isFullscreen

isCurrentlyFullscreen == hostFullscreen

\* handleFullscreenChange, lines 237-245, for a delivered notification.
handleFullscreenChange ==
    /\ Usable
    /\ fsEvents > 0
    /\ fsEvents' = fsEvents - 1
    /\ isFullscreen' = isCurrentlyFullscreen
    /\ UNCHANGED <<hostFullscreen, fsRequests, hostLog>>
    /\ UNCHANGED <<zoom, splitVars>>
    /\ ViewCommit

(***************************************************************************)
(* The splitter, lines 261-291 and 589-593.                                *)
(***************************************************************************)
\* containerRef.current.getBoundingClientRect(), line 270: the container
\* has a positive width.
containerRect == [left |-> 40, width |-> 200]

\* e.clientX of the pointer positions sampled: left of the container, at
\* 5, 20, 37, 50, 80 and 95 per cent of it, and right of it.  The
\* positions are such that the quotient of line 271 is exact.
PointerXs == {20, 50, 80, 114, 140, 200, 230, 300}

\* ((e.clientX - containerRect.left) / containerRect.width) * 100, line 271
newWidth(clientX) ==
    ((clientX - containerRect.left) * 100) \div containerRect.width

\* Math.min(Math.max(newWidth, 20), 80), line 274
constrainedWidthNoFloor(w) == MathMin(w, 80)

constrainedWidth(w) == MathMin(MathMax(w, 20), 80)

\* The width of the preview panel, line 591
previewWidth == 100 - editorWidth

\* handleMouseDown, lines 261-264
handleMouseDown ==
    /\ Usable
    /\ isResizing' = TRUE
    /\ dragging' = TRUE
    /\ UNCHANGED <<zoom, fullscreenVars, editorWidth>>
    /\ ViewCommit

\* The document listeners exist while isResizing, lines 282-290.
Listening == isResizing

\* handleMouseMove, lines 267-276: the editor width afterwards.
handleMouseMove(clientX) ==
    IF ~isResizing THEN editorWidth
    ELSE constrainedWidth(newWidth(clientX))

\* The pointer moves to clientX over the document.
MouseMove(clientX) ==
    /\ Usable
    /\ editorWidth' = IF Listening THEN handleMouseMove(clientX) ELSE editorWidth
    /\ UNCHANGED <<zoom, fullscreenVars, isResizing, dragging>>
    /\ ViewCommit

\* handleMouseUp, lines 278-280: the isResizing it sets.
handleMouseUpKeeps == isResizing

handleMouseUp == FALSE

\* The pointer button is released over the document.
MouseUp ==
    /\ Usable
    /\ isResizing' = IF Listening THEN handleMouseUp ELSE isResizing
    /\ dragging' = FALSE
    /\ UNCHANGED <<zoom, fullscreenVars, editorWidth>>
    /\ ViewCommit

(***************************************************************************)
(* Exports and the clipboard, lines 293-334.                               *)
(***************************************************************************)
\* backgroundColor: isDark ? '#1e293b' : '#ffffff', lines 299 and 315
backgroundColor == IF isDark THEN "#1e293b" ELSE "#ffffff"

\* The alerts of lines 307, 323 and 330.
ExportFailedNotice == "Export failed. Please try again."
CopiedNotice == "Code copied to clipboard!"

\* Exports and copies started since the page was loaded.
Started == Len(exports) + Len(copies) + Len(notices) + Len(downloads)

\* exportToPNG / exportToSVG up to the await, lines 293-300 and 311-316:
\* without a preview node nothing happens; otherwise toPng / toSvg is
\* called on the node.
export(file) ==
    /\ Usable
    /\ IF diagramRef = "null"
       THEN UNCHANGED exports
       ELSE /\ Started < MaxRequests
            /\ exports' = Append(exports, [download |-> file,
                                           backgroundColor |-> backgroundColor,
                                           node |-> innerHTML])
    /\ UNCHANGED <<copies, notices, downloads, clipboard>>
    /\ UNCHANGED <<sessionVars, viewVars>>

exportToPNG == export("mermaid-diagram.png")

exportToSVG == export("mermaid-diagram.svg")

\* The catch blocks of the exports, lines 305-308 and 321-324: the alerts
\* shown afterwards.
ExportCatchSilent(shown) == shown

ExportCatch(shown) == Append(shown, ExportFailedNotice)

\* The promise of the export at position i settles, lines 296-308 and
\* 314-324: fulfilled, the link is clicked and the file is downloaded;
\* rejected, the catch block runs.
ExportSettles(i, fulfilled) ==
    /\ Usable
    /\ i \in 1..Len(exports)
    /\ exports' = RemoveAt(exports, i)
    /\ IF fulfilled
       THEN /\ downloads' = Append(downloads, exports[i].download)
            /\ UNCHANGED notices
       ELSE /\ notices' = ExportCatch(notices)
            /\ UNCHANGED downloads
    /\ UNCHANGED <<copies, clipboard>>
    /\ UNCHANGED <<sessionVars, viewVars>>

\* copyToClipboard up to the await, lines 327-329
copyToClipboard ==
    /\ Usable
    /\ Started < MaxRequests
    /\ copies' = Append(copies, [text |-> code])
    /\ UNCHANGED <<exports, notices, downloads, clipboard>>
    /\ UNCHANGED <<sessionVars, viewVars>>

\* The promise of the copy at position i settles, lines 329-333:
\* fulfilled, the text is on the clipboard and the alert is shown;
\* rejected, the catch block logs to the console.
CopySettles(i, fulfilled) ==
    /\ Usable
    /\ i \in 1..Len(copies)
    /\ copies' = RemoveAt(copies, i)
    /\ IF fulfilled
       THEN /\ clipboard' = copies[i].text
            /\ notices' = Append(notices, CopiedNotice)
       ELSE UNCHANGED <<clipboard, notices>>
    /\ UNCHANGED <<exports, downloads>>
    /\ UNCHANGED <<sessionVars, viewVars>>

\* The page is loaded again: the component is constructed anew, the host
\* leaves fullscreen and drops what was pending, and only the store, the
\* clipboard and the UI theme outlive the page.
Reload ==
    /\ mounted
    /\ mounted' = FALSE
    /\ code' = templates.flowchart
    /\ mermaidTheme' = "default"
    /\ mermaidConfig' = "default"
    /\ error' = ""
    /\ diagramRef' = "null"
    /\ innerHTML' = NoSvg
    /\ idCounter' = 0
    /\ timers' = {}
    /\ inflight' = {}
    /\ lastCall' = NoCall
    /\ completed' = FALSE
    /\ savedDiagrams' = JArr(<<>>)
    /\ showSidebar' = TRUE
    /\ crashed' = FALSE
    /\ mutated' = FALSE
    /\ issued' = <<>>
    /\ zoom' = 100
    /\ isFullscreen' = FALSE
    /\ hostFullscreen' = FALSE
    /\ fsRequests' = <<>>
    /\ fsEvents' = 0
    /\ hostLog' = "idle"
    /\ editorWidth' = 50
    /\ isResizing' = FALSE
    /\ dragging' = FALSE
    /\ exports' = <<>>
    /\ copies' = <<>>
    /\ notices' = <<>>
    /\ downloads' = <<>>
    /\ UNCHANGED <<isDark, storage, saved, clipboard>>

(***************************************************************************)
(* Specifications.                                                         *)
(***************************************************************************)
Next ==
    \/ Mount
    \/ \E text \in TypedTexts : setCode(text)
    \/ \E name \in TemplateNames : selectTemplate(name)
    \/ \E theme \in MermaidTheme : setMermaidTheme(theme)
    \/ \E dark \in BOOLEAN : setTheme(dark)
    \/ \E tm \in timers : TimerFires(tm)
    \/ \E call \in inflight : renderResumes(call)
    \/ \E answer \in PromptAnswers : saveDiagram(answer)
    \/ \E i \in 1..MaxSaved, confirmed \in BOOLEAN : deleteDiagram(i, confirmed)
    \/ \E i \in 1..MaxSaved : loadDiagram(i)
    \/ toggleSidebar
    \/ handleZoomIn
    \/ handleZoomOut
    \/ toggleFullscreen
    \/ \E i \in 1..MaxRequests, granted \in BOOLEAN : HostSettles(i, granted)
    \/ EscapePressed
    \/ handleFullscreenChange
    \/ handleMouseDown
    \/ \E clientX \in PointerXs : MouseMove(clientX)
    \/ MouseUp
    \/ exportToPNG
    \/ exportToSVG
    \/ \E i \in 1..MaxRequests, fulfilled \in BOOLEAN : ExportSettles(i, fulfilled)
    \/ copyToClipboard
    \/ \E i \in 1..MaxRequests, fulfilled \in BOOLEAN : CopySettles(i, fulfilled)
    \/ Reload

Spec == Init /\ [][Next]_vars

\* The render pipeline alone, on a store that holds nothing.
InitPipeline == InitWith({[item |-> NoItem, list |-> <<>>]})

\* The themes chosen in the selector: the two the theme effect treats
\* specially, and one of the others.
ThemeChoices == {"default", "dark", "forest"}

NextPipeline ==
    \/ Mount
    \/ \E text \in TypedTexts : setCode(text)
    \/ \E theme \in ThemeChoices : setMermaidTheme(theme)
    \/ \E dark \in BOOLEAN : setTheme(dark)
    \/ \E tm \in timers : TimerFires(tm)
    \/ \E call \in inflight : renderResumes(call)

SpecPipeline == InitPipeline /\ [][NextPipeline]_vars

\* The saved list alone, over the stores a session can have left.
InitStore == InitWith(SavedStores)

NextStore ==
    \/ Mount
    \/ \E text \in TypedTexts : setCode(text)
    \/ \E answer \in PromptAnswers : saveDiagram(answer)
    \/ \E i \in 1..MaxSaved, confirmed \in BOOLEAN : deleteDiagram(i, confirmed)
    \/ \E i \in 1..MaxSaved : loadDiagram(i)
    \/ toggleSidebar
    \/ Reload

SpecStore == InitStore /\ [][NextStore]_vars

\* Startup over every sampled content of the store slot.
\* The template buttons pressed: the first, the second and the last.
TemplateChoices == {"flowchart", "sequence", "pie"}

NextStartup ==
    \/ Mount
    \/ \E name \in TemplateChoices : selectTemplate(name)
    \/ \E answer \in PromptAnswers : saveDiagram(answer)
    \/ \E i \in 1..MaxSaved, confirmed \in BOOLEAN : deleteDiagram(i, confirmed)
    \/ \E i \in 1..MaxSaved : loadDiagram(i)
    \/ toggleSidebar
    \/ Reload

SpecStartup == Init /\ [][NextStartup]_vars

\* The viewport and the splitter alone, on a store that holds nothing.
NextViewport ==
    \/ Mount
    \/ handleZoomIn
    \/ handleZoomOut
    \/ toggleFullscreen
    \/ \E i \in 1..MaxRequests, granted \in BOOLEAN : HostSettles(i, granted)
    \/ EscapePressed
    \/ handleFullscreenChange
    \/ handleMouseDown
    \/ \E clientX \in PointerXs : MouseMove(clientX)
    \/ MouseUp

SpecViewport == InitPipeline /\ [][NextViewport]_vars

\* The text typed in the specifications below: the incomplete diagram.
BrokenText == {<<"g", "!">>}

\* The pipeline, from the first render to one edit, under the viewport and
\* splitter handlers: the zoom buttons pressed around 100, the pointer
\* moved to 5 and to 50 per cent.
NextFrame ==
    \/ Mount
    \/ \E text \in BrokenText : setCode(text)
    \/ \E tm \in timers : TimerFires(tm)
    \/ \E call \in inflight : renderResumes(call)
    \/ zoom < 110 /\ handleZoomIn
    \/ zoom > 90 /\ handleZoomOut
    \/ toggleFullscreen
    \/ \E i \in 1..MaxRequests, granted \in BOOLEAN : HostSettles(i, granted)
    \/ handleFullscreenChange
    \/ handleMouseDown
    \/ \E clientX \in {50, 140} : MouseMove(clientX)
    \/ MouseUp

SpecFrame == InitPipeline /\ [][NextFrame]_vars

\* The failure paths: a store that holds text JSON.parse rejects, renders,
\* exports and copies that fail, and fullscreen requests the host denies.
UnparseableStores ==
    { [item |-> NoItem, list |-> <<>>],
      [item |-> Item(<<"[", "{">>), list |-> <<>>] }

InitSession == InitWith(UnparseableStores)

NextSession ==
    \/ Mount
    \/ \E text \in BrokenText : setCode(text)
    \/ \E tm \in timers : TimerFires(tm)
    \/ \E call \in inflight : renderResumes(call)
    \/ exportToPNG
    \/ exportToSVG
    \/ \E i \in 1..MaxRequests, fulfilled \in BOOLEAN : ExportSettles(i, fulfilled)
    \/ copyToClipboard
    \/ \E i \in 1..MaxRequests, fulfilled \in BOOLEAN : CopySettles(i, fulfilled)
    \/ toggleFullscreen
    \/ \E i \in 1..MaxRequests : HostSettles(i, FALSE)

SpecSession == InitSession /\ [][NextSession]_vars

\* The saved list under the other actions of the session: edits to the
\* incomplete diagram, the first template, loads, one theme of the selector,
\* renders, and saves under one name.
NextSnapshot ==
    \/ Mount
    \/ \E text \in BrokenText : setCode(text)
    \/ \E name \in {"flowchart"} : selectTemplate(name)
    \/ \E theme \in {"forest"} : setMermaidTheme(theme)
    \/ \E tm \in timers : TimerFires(tm)
    \/ \E call \in inflight : renderResumes(call)
    \/ \E answer \in {[cancelled |-> FALSE, text |-> <<"A">>]} : saveDiagram(answer)
    \/ \E i \in 1..MaxSaved : deleteDiagram(i, TRUE)
    \/ \E i \in 1..MaxSaved : loadDiagram(i)

SpecSnapshot == InitPipeline /\ [][NextSnapshot]_vars

(***************************************************************************)
(* The pipeline is at rest: no timer is pending and no render is awaited.  *)
(***************************************************************************)
AtRest == Usable /\ timers = {} /\ inflight = {}

(***************************************************************************)
(* Properties.                                                             *)
(***************************************************************************)
\* C1: when the debounce timer fires after a burst of edits that ended on a
\* non-blank text, it is the only pending timer, it holds the last text,
\* and the renderer is invoked exactly once, on that text.
C1_BurstRendersLastText ==
    [][\A tm \in timers :
          (TimerFires(tm) /\ trim(code) # <<>>) =>
              /\ timers = {[code |-> code]}
              /\ idCounter' = idCounter + 1
              /\ inflight' = inflight \cup {lastCall'}
              /\ lastCall'.id = idCounter
              /\ lastCall'.code = code]_vars

\* C2: once the pipeline has come to rest on a text the renderer accepts,
\* no error is displayed and the artifact of that text is displayed, also
\* when an error was displayed before the text was submitted.
C2_RecoversAfterFailure ==
    (AtRest /\ Accepts(code)) =>
        (~ShowsError /\ ShowsArtifact /\ innerHTML.code = code)

\* C3: once every render invocation has completed, the Render Result is
\* the result of the most recent invocation: its artifact and no error when
\* the renderer accepted its text, an error otherwise.
C3_LatestRequestWins ==
    (Usable /\ inflight = {} /\ lastCall # NoCall) =>
        IF Accepts(lastCall.code)
        THEN ~ShowsError /\ innerHTML = Svg(lastCall)
        ELSE ShowsError

\* C4: once the pipeline has come to rest on a non-blank text T under theme
\* Th, the last renderer call was on T with the renderer configured for Th,
\* and the Render Result is the result of that call.
C4_ResultMatchesSubmission ==
    (AtRest /\ trim(code) # <<>>) =>
        /\ lastCall # NoCall
        /\ lastCall.code = code
        /\ lastCall.theme = mermaidTheme
        /\ IF Accepts(code)
           THEN ~ShowsError /\ innerHTML = Svg(lastCall)
           ELSE ShowsError

\* C5: when a render invocation completes with a renderer failure, an
\* error message is displayed and no artifact is displayed any more.
C5_FailureReplacesDiagram ==
    [][\A call \in inflight :
          (renderResumes(call) /\ ~Accepts(call.code)) =>
              (error' # "" /\ ~innerHTML'.svg)]_vars

\* C6: when the debounce timer fires on a text that is empty or white space
\* only, the renderer is not invoked, no identifier is consumed, and the
\* displayed artifact and error stay what they were.
C6_BlankTextIsNotRendered ==
    [][\A tm \in timers :
          (TimerFires(tm) /\ trim(tm.code) = <<>>) =>
              UNCHANGED <<idCounter, inflight, lastCall, error, diagramRef,
                          innerHTML>>]_vars

\* A timer has fired on a white-space-only text while an artifact was
\* displayed, and the artifact is still displayed.
C6_Witness ==
    /\ AtRest
    /\ code # <<>> /\ trim(code) = <<>>
    /\ ShowsArtifact /\ ~ShowsError

\* C7: before any render has completed the display is empty; afterwards
\* exactly one of "artifact and no error" and "error and no artifact" holds.
C7_RenderResultInvariant ==
    IF ~completed
    THEN DisplayEmpty
    ELSE (ShowsArtifact /\ ~ShowsError) \/ (ShowsError /\ ~ShowsArtifact)

\* C8: every step of a loaded page that changes the saved list leaves in
\* the store slot a text that parses to exactly the new list.
C8_StoreEqualsSequence ==
    [][(mounted /\ mounted' /\ savedDiagrams' # savedDiagrams) =>
          /\ storage'.present
          /\ JSONparse(storage'.text) = [ok |-> TRUE, val |-> savedDiagrams']]_vars

\* A save has just made the list two entries long, and the store holds it.
C8_Witness ==
    /\ Usable /\ mutated
    /\ savedDiagrams.t = "arr" /\ Len(savedDiagrams.v) = MaxSaved
    /\ storage.present
    /\ JSONparse(storage.text).val = savedDiagrams

\* C9: on a loaded page the saved list is exactly the pairs saved and not
\* deleted so far, in the order they were saved, also after the page was
\* loaded again.
C9_SaveLoadRoundTrip ==
    Usable => savedDiagrams = DiagramList(saved)

\* A page loaded after an earlier session saved two pairs: the list holds
\* both in the order they were saved, and the name made of a backslash and
\* a quote and the code with line feed and space came back intact.
C9_Witness ==
    /\ Usable /\ ~mutated
    /\ Len(saved) = MaxSaved
    /\ saved[1] = [name |-> <<"A">>, code |-> <<"g", "!">>]
    /\ saved[MaxSaved] = [name |-> <<"\\", "\"">>, code |-> <<"\n", "g", " ">>]
    /\ savedDiagrams = DiagramList(saved)

\* C10: a page loaded from a store slot that holds no serialized list of
\* pairs has an empty saved list and has not failed.
C10_ForeignStoreLoadsEmpty ==
    (mounted /\ storage \in ForeignItems) =>
        /\ ~crashed
        /\ Iterable(savedDiagrams)
        /\ Spread(savedDiagrams) = <<>>

\* C11: the zoom is always a multiple of 10 between 50 and 200; zoomIn adds
\* exactly 10 below 200 and leaves 200 unchanged; zoomOut subtracts exactly
\* 10 above 50 and leaves 50 unchanged.
C11_ZoomBoundsAndStep ==
    /\ [](zoom \in 50..200 /\ zoom % 10 = 0)
    /\ [][handleZoomIn => zoom' = IF zoom < 200 THEN zoom + 10 ELSE 200]_vars
    /\ [][handleZoomOut => zoom' = IF zoom > 50 THEN zoom - 10 ELSE 50]_vars

\* Ten presses of zoomIn from 100 have brought the zoom to its upper bound.
C11_Witness == Usable /\ zoom = 200

\* C12: the editor width is always between 20 and 80 and the preview width
\* is 100 minus it; a pointer move during a resize to a position implying
\* p per cent stores max(20, min(p, 80)): 5 stores 20 and 95 stores 80.
C12_SplitWidthClamped ==
    /\ [](/\ editorWidth \in 20..80
          /\ previewWidth \in 20..80
          /\ editorWidth + previewWidth = 100)
    /\ [][\A x \in PointerXs :
             (isResizing /\ MouseMove(x)) =>
                 /\ editorWidth' = MathMax(20, MathMin(newWidth(x), 80))
                 /\ (newWidth(x) = 5 => editorWidth' = 20)
                 /\ (newWidth(x) = 95 => editorWidth' = 80)]_vars

\* During a resize the pointer was moved below 20 per cent and the stored
\* width is 20.
C12_Witness == Usable /\ isResizing /\ editorWidth = 20 /\ previewWidth = 80

\* C13: on a loaded page the fullscreen flag changes only in the handler of
\* a fullscreen-change notification; the toggle never writes it; after the
\* handler the flag equals the host's fullscreen status.
C13_FlagFollowsHost ==
    /\ [][(mounted /\ mounted' /\ isFullscreen' # isFullscreen) =>
             handleFullscreenChange]_vars
    /\ [][toggleFullscreen => isFullscreen' = isFullscreen]_vars
    /\ [][handleFullscreenChange => isFullscreen' = hostFullscreen']_vars

\* Fullscreen was left with the Esc key, every notification was handled,
\* and the flag says what the host says.
C13_Witness ==
    /\ Usable
    /\ hostLog = "escaped" /\ fsEvents = 0 /\ fsRequests = <<>>
    /\ ~hostFullscreen /\ ~isFullscreen

\* C14: every failing operation (a render the renderer rejects, an export
\* or a copy whose promise rejects, a fullscreen request the host rejects,
\* a stored text JSON.parse rejects) leaves the source text, the zoom, the
\* fullscreen flag and the saved list as they were, does not fail the page,
\* and leaves the preview node in place, on which rendering and exporting
\* depend; a failure other than a render failure leaves the preview as it
\* was.
C14_FailureLeavesSessionIntact ==
    /\ [][\A call \in inflight :
             (renderResumes(call) /\ ~Accepts(call.code)) =>
                 /\ UNCHANGED <<code, zoom, isFullscreen, savedDiagrams>>
                 /\ mounted' /\ ~crashed'
                 /\ diagramRef' = "div"]_vars
    /\ [][\A i \in 1..Len(exports) :
             ExportSettles(i, FALSE) =>
                 /\ UNCHANGED <<code, zoom, isFullscreen, savedDiagrams>>
                 /\ mounted' /\ ~crashed'
                 /\ UNCHANGED <<error, diagramRef, innerHTML>>]_vars
    /\ [][\A i \in 1..Len(copies) :
             CopySettles(i, FALSE) =>
                 /\ UNCHANGED <<code, zoom, isFullscreen, savedDiagrams>>
                 /\ mounted' /\ ~crashed'
                 /\ UNCHANGED <<error, diagramRef, innerHTML>>]_vars
    /\ [][\A i \in 1..Len(fsRequests) :
             (HostSettles(i, FALSE) /\ hostLog' = "rejected") =>
                 /\ UNCHANGED <<code, zoom, isFullscreen, savedDiagrams>>
                 /\ mounted' /\ ~crashed'
                 /\ UNCHANGED <<error, diagramRef, innerHTML>>]_vars
    /\ [][(Mount /\ storage.present /\ ~JSONparse(storage.text).ok) =>
             /\ UNCHANGED <<code, zoom, isFullscreen, savedDiagrams>>
             /\ mounted' /\ ~crashed'
             /\ diagramRef' = "div"]_vars

\* C15: when the promise of an export rejects, the failure alert is shown
\* once, no file is downloaded, and the page has not failed.
C15_ExportFailureSurfaced ==
    [][\A i \in 1..Len(exports) :
          ExportSettles(i, FALSE) =>
              /\ notices' = Append(notices, ExportFailedNotice)
              /\ downloads' = downloads
              /\ mounted' /\ ~crashed']_vars

\* A PNG export and an SVG export have both failed: two failure alerts
\* were shown and nothing was downloaded.
C15_Witness ==
    /\ Usable
    /\ notices = <<ExportFailedNotice, ExportFailedNotice>>
    /\ downloads = <<>> /\ exports = <<>>

\* C16: a copy writes the source text of the moment it was requested; when
\* the write succeeds that text is on the clipboard and a success notice is
\* shown; when it fails a notice other than the success notice is shown.
C16_CopyOutcomeSurfaced ==
    /\ [][copyToClipboard => copies' = Append(copies, [text |-> code])]_vars
    /\ [][\A i \in 1..Len(copies) :
             CopySettles(i, TRUE) =>
                 /\ clipboard' = copies[i].text
                 /\ notices' = Append(notices, CopiedNotice)]_vars
    /\ [][\A i \in 1..Len(copies) :
             CopySettles(i, FALSE) =>
                 /\ Len(notices') = Len(notices) + 1
                 /\ notices'[Len(notices')] # CopiedNotice]_vars

\* C17: the identifiers handed to the renderer are strictly increasing in
\* invocation order, all below the counter, which never decreases on a
\* loaded page; the renders in flight carry identifiers that were handed
\* out and no two of them carry the same one.
C17_FreshRenderIds ==
    /\ [](/\ \A i, j \in 1..Len(issued) : i < j => issued[i] < issued[j]
          /\ \A i \in 1..Len(issued) : issued[i] < idCounter
          /\ \A c \in inflight : \E i \in 1..Len(issued) : issued[i] = c.id
          /\ \A c1, c2 \in inflight : c1.id = c2.id => c1 = c2
          /\ lastCall # NoCall => lastCall.id = issued[Len(issued)])
    /\ [][(mounted /\ mounted') => idCounter' >= idCounter]_vars

\* Two renders overlap in flight, one the renderer will reject and one it
\* will accept, and they carry different identifiers.
C17_Witness ==
    /\ Usable
    /\ Len(issued) = MaxRenders
    /\ \E c1, c2 \in inflight :
          c1.id # c2.id /\ ~Accepts(c1.code) /\ Accepts(c2.code)

\* C18: a zoom button, a fullscreen toggle, a fullscreen-change
\* notification, a press of the handle, a pointer move and a release leave
\* the pending timers, the renderer's invocations, the source text, the
\* theme, the Render Result, the saved list and the store as they were.
C18_ViewLeavesPipelineAlone ==
    [][(\/ handleZoomIn
        \/ handleZoomOut
        \/ toggleFullscreen
        \/ handleFullscreenChange
        \/ handleMouseDown
        \/ \E x \in PointerXs : MouseMove(x)
        \/ MouseUp) =>
           UNCHANGED <<timers, idCounter, inflight, issued, lastCall, completed,
                       code, mermaidTheme, mermaidConfig, error, diagramRef,
                       innerHTML, savedDiagrams, storage>>]_vars

\* With a render in flight and a timer pending, the zoom is 110, the
\* preview is fullscreen and the editor was resized to 20 per cent.
C18_Witness ==
    /\ Usable
    /\ timers # {} /\ inflight # {}
    /\ zoom = 110 /\ isFullscreen /\ hostFullscreen
    /\ editorWidth = 20 /\ ~isResizing

\* C19: a resize is in progress exactly between a press of the handle and
\* the next release of the pointer; the editor width changes only by a
\* pointer move while a resize is in progress, so moves after the release
\* leave it unchanged; pressing the handle during a resize changes nothing.
C19_ResizeProtocol ==
    /\ [](mounted => (isResizing <=> dragging))
    /\ [][(mounted /\ mounted' /\ editorWidth' # editorWidth) =>
             (dragging /\ isResizing /\ \E x \in PointerXs : MouseMove(x))]_vars
    /\ [][(~dragging /\ \E x \in PointerXs : MouseMove(x)) =>
             editorWidth' = editorWidth]_vars
    /\ [][(isResizing /\ handleMouseDown) => UNCHANGED vars]_vars

\* A resize moved the width to 37 per cent and was ended by a release.
C19_Witness == Usable /\ ~isResizing /\ ~dragging /\ editorWidth = 37

\* C20: a fullscreen toggle whose request has nothing to do for the host
\* (enter while the host is fullscreen, exit while it is not), and the
\* settling of such a request, change neither the flag nor any other state
\* of the session or of the host.
C20_RedundantRequestTolerated ==
    /\ [][(toggleFullscreen /\ isFullscreen # hostFullscreen) =>
             UNCHANGED <<sessionVars, zoom, isFullscreen, hostFullscreen, fsEvents,
                         splitVars, ioVars>>]_vars
    /\ [][\A i \in 1..Len(fsRequests), granted \in BOOLEAN :
             (HostSettles(i, granted) /\ Redundant(fsRequests[i])) =>
                 UNCHANGED <<sessionVars, zoom, isFullscreen, hostFullscreen,
                             fsEvents, splitVars, ioVars>>]_vars

\* While the flag lagged behind a host that was already fullscreen, a
\* second enter request was made and settled without effect.
C20_Witness ==
    /\ Usable
    /\ hostLog = "resolved without effect"
    /\ hostFullscreen /\ ~isFullscreen

\* C21: a save with a non-empty name makes the list one longer, keeps every
\* entry at its position and puts the pair of the name and the current
\* source text last; a confirmed delete at position i makes the list one
\* shorter, keeps the entries before i at their positions and moves each
\* entry after i one position down.
C21_SavedSequenceOperations ==
    /\ [][\A answer \in PromptAnswers :
             (~answer.cancelled /\ answer.text # <<>> /\ saveDiagram(answer)) =>
                 /\ Len(savedDiagrams'.v) = Len(savedDiagrams.v) + 1
                 /\ \A j \in 1..Len(savedDiagrams.v) :
                       savedDiagrams'.v[j] = savedDiagrams.v[j]
                 /\ savedDiagrams'.v[Len(savedDiagrams'.v)]
                        = Diagram(answer.text, code)]_vars
    /\ [][\A i \in 1..MaxSaved :
             deleteDiagram(i, TRUE) =>
                 /\ Len(savedDiagrams'.v) = Len(savedDiagrams.v) - 1
                 /\ \A j \in 1..Len(savedDiagrams'.v) :
                       savedDiagrams'.v[j] =
                           IF j < i THEN savedDiagrams.v[j]
                           ELSE savedDiagrams.v[j + 1]]_vars

\* Two entries with the same name and different codes were saved in this
\* session, and the list holds both in the order they were saved.
C21_Witness ==
    /\ Usable /\ mutated
    /\ Len(saved) = MaxSaved
    /\ saved[1].name = saved[MaxSaved].name
    /\ saved[1].code # saved[MaxSaved].code
    /\ savedDiagrams = DiagramList(saved)

\* C22: on a loaded page every step leaves the saved list as it was,
\* except a save, which keeps every entry and adds one at the end, and a
\* confirmed delete at a position, which removes the entry at that position
\* and keeps the others; in particular edits, template selections, loads,
\* theme changes and renders leave every entry's name and code as saved.
C22_SnapshotsImmutable ==
    /\ [][(mounted /\ mounted' /\ savedDiagrams' # savedDiagrams) =>
             \/ /\ \E answer \in PromptAnswers : saveDiagram(answer)
                /\ SubSeq(savedDiagrams'.v, 1, Len(savedDiagrams.v))
                       = savedDiagrams.v
             \/ \E i \in 1..Len(savedDiagrams.v) :
                   /\ deleteDiagram(i, TRUE)
                   /\ savedDiagrams'.v = RemoveAt(savedDiagrams.v, i)]_vars
    /\ [][(\/ \E text \in TypedTexts : setCode(text)
           \/ \E name \in TemplateNames : selectTemplate(name)
           \/ \E i \in 1..MaxSaved : loadDiagram(i)
           \/ \E theme \in MermaidTheme : setMermaidTheme(theme)
           \/ \E tm \in timers : TimerFires(tm)
           \/ \E call \in inflight : renderResumes(call)) =>
              UNCHANGED <<savedDiagrams, storage>>]_vars

\* The first entry was saved from the incomplete diagram and the last from
\* the first template; since then the text was edited again, the theme was
\* changed and a render completed, and both entries are as saved.
C22_Witness ==
    /\ Usable /\ completed
    /\ Len(saved) = MaxSaved
    /\ saved[1].code = <<"g", "!">>
    /\ saved[MaxSaved].code = templates.flowchart
    /\ code = <<"g", "!">>
    /\ mermaidTheme = "forest"
    /\ savedDiagrams = DiagramList(saved)

\* C23: when a render invocation completes with a failure, whatever the
\* rejection carries, the stored error is not the empty string, so the
\* error branch of the preview is displayed.
C23_FailureMessageNonEmpty ==
    [][\A call \in inflight :
          (renderResumes(call) /\ ~Accepts(call.code)) =>
              (error' # "" /\ diagramRef' = "null")]_vars

\* A render has failed with a rejection that carried no usable message,
\* and the default message is displayed.
C23_Witness ==
    /\ Usable /\ completed
    /\ ~Accepts(lastCall.code)
    /\ error = "Invalid Mermaid syntax"

\* C24: a save whose prompt was cancelled or answered with the empty name,
\* and a delete whose confirmation was declined, leave the saved list and
\* the store slot as they were and write nothing.
C24_AbandonedChangesNothing ==
    /\ [][\A answer \in PromptAnswers :
             ((answer.cancelled \/ answer.text = <<>>) /\ saveDiagram(answer)) =>
                 UNCHANGED <<savedDiagrams, storage, mutated, saved>>]_vars
    /\ [][\A i \in 1..MaxSaved :
             deleteDiagram(i, FALSE) =>
                 UNCHANGED <<savedDiagrams, storage, mutated, saved>>]_vars

\* A page showing a full list loaded from the store, nothing written since:
\* the state in which saves are cancelled and deletes declined.
C24_Witness ==
    /\ Usable /\ showSidebar /\ ~mutated
    /\ Len(saved) = MaxSaved
    /\ savedDiagrams = DiagramList(saved)
    /\ storage = setItem(savedDiagrams)
====
